---- MODULE Spec2Model ----
(***************************************************************************)
(* Model of _bentoml_sdk/_pydantic.py: the six prepare_pydantic_annotations *)
(* handlers and the resolver of BentoMLPydanticGenerateSchema that chains   *)
(* them behind a hashability check and the engine's built-in resolution.    *)
(***************************************************************************)
EXTENDS Integers, Sequences, FiniteSets, TLC

VARIABLES obj, annotations, pc, idx, calls, res

vars == <<obj, annotations, pc, idx, calls, res>>

\* Longest annotation list handed to the resolver.
MaxLen == 3

\* Python's None.
NoneVal == "None"

(***************************************************************************)
(* Annotations.  Every annotation is a record of the same four fields so    *)
(* that any two of them can be compared; fields a class does not have hold  *)
(* NoneVal.                                                                 *)
(***************************************************************************)
Ann(kind, v) == [kind |-> kind, v |-> v, dtype |-> NoneVal, shape |-> NoneVal]

Shape(dimensions) == Ann("Shape", dimensions)

DType(dtype) == Ann("DType", dtype)

ContentType(content_type) == Ann("ContentType", content_type)

DataframeSchema(orient) == Ann("DataframeSchema", orient)

PILImageEncoder == Ann("PILImageEncoder", NoneVal)

FileSchema(content_type) == Ann("FileSchema", content_type)

TensorSchema(format, dtype, shape) ==
    [kind |-> "TensorSchema", v |-> format, dtype |-> dtype, shape |-> shape]

\* The annotations a caller may attach to a field: the three kinds the
\* handlers consume (two values each), a constraint the engine knows
\* (annotated_types.Gt), an annotation nobody knows, and a DataframeSchema
\* (default or configured).
AnnotationValues ==
    { Shape("(3,224,224)"), Shape("(1,)"),
      DType("float32"), DType("int64"),
      ContentType("application/pdf"), ContentType("image/png"),
      Ann("Gt", "0"),
      Ann("Custom", "a"),
      DataframeSchema("default"), DataframeSchema("records") }

AnnotationLists ==
    UNION { [1..n -> AnnotationValues] : n \in 0..MaxLen }

\* The kinds that are Resolved Schema variants.
SchemaKinds == {"TensorSchema", "DataframeSchema", "PILImageEncoder", "FileSchema"}

(***************************************************************************)
(* Source types.  A source is described by what the handlers read of it:    *)
(* whether hash() accepts it, its __module__, what get_origin and get_args  *)
(* return for it, and whether the engine's own resolution knows it.         *)
(***************************************************************************)
TypeArg(name, args) == [name |-> name, args |-> args]

Src(name, hashable, module, origin, args, engineKnown) ==
    [name |-> name, hashable |-> hashable, module |-> module,
     origin |-> origin, args |-> args, engineKnown |-> engineKnown]

PathTypes ==
    { "pathlib.PurePath", "pathlib.PurePosixPath", "pathlib.PureWindowsPath",
      "pathlib.Path", "pathlib.PosixPath", "pathlib.WindowsPath" }

NdArrayOf(name, elem) ==
    Src(name, TRUE, "numpy", "numpy.ndarray",
        <<TypeArg("typing.Any", <<>>), TypeArg("numpy.dtype", <<elem>>)>>, FALSE)

Sources ==
    { Src(p, TRUE, "pathlib", p, <<>>, TRUE) : p \in PathTypes }
    \cup
    { Src("uuid.UUID", TRUE, "uuid", "uuid.UUID", <<>>, TRUE),
      Src("UserClass", TRUE, "__main__", "UserClass", <<>>, FALSE),
      Src("unhashable", FALSE, "__main__", "unhashable", <<>>, FALSE),
      Src("numpy.ndarray", TRUE, "numpy", "numpy.ndarray", <<>>, FALSE),
      NdArrayOf("numpy.ndarray[Any, dtype[float32]]", "numpy.float32"),
      NdArrayOf("numpy.ndarray[Any, dtype[int64]]", "numpy.int64"),
      NdArrayOf("numpy.typing.NDArray", "TypeVar"),
      Src("numpy.ndarray[Any, Any]", TRUE, "numpy", "numpy.ndarray",
          <<TypeArg("typing.Any", <<>>), TypeArg("typing.Any", <<>>)>>, FALSE),
      Src("numpy.float64", TRUE, "numpy", "numpy.float64", <<>>, FALSE),
      Src("torch.Tensor", TRUE, "torch", "torch.Tensor", <<>>, FALSE),
      Src("torch.nn.Parameter", TRUE, "torch.nn.parameter", "torch.nn.Parameter",
          <<>>, FALSE),
      Src("torch.Size", TRUE, "torch", "torch.Size", <<>>, FALSE),
      Src("tensorflow.Tensor", TRUE, "tensorflow.python.framework.tensor",
          "tensorflow.Tensor", <<>>, FALSE),
      Src("tensorflow.Module", TRUE, "tensorflow.python.module.module",
          "tensorflow.Module", <<>>, FALSE),
      Src("pandas.DataFrame", TRUE, "pandas.core.frame", "pandas.DataFrame",
          <<>>, FALSE),
      Src("pandas.Series", TRUE, "pandas.core.series", "pandas.Series", <<>>, FALSE),
      Src("PIL.Image.Image", TRUE, "PIL.Image", "PIL.Image.Image", <<>>, FALSE),
      Src("PIL.ImageFile.ImageFile", TRUE, "PIL.ImageFile",
          "PIL.ImageFile.ImageFile", <<>>, FALSE),
      Src("PIL.ImageDraw.ImageDraw", TRUE, "PIL.ImageDraw",
          "PIL.ImageDraw.ImageDraw", <<>>, FALSE) }

\* str.startswith on the module names above.
StartsWith(module, prefix) ==
    CASE prefix = "numpy" -> module \in {"numpy"}
      [] prefix = "torch" -> module \in {"torch", "torch.nn.parameter"}
      [] prefix = "tensorflow" ->
            module \in {"tensorflow.python.framework.tensor",
                        "tensorflow.python.module.module"}
      [] prefix = "pandas" -> module \in {"pandas.core.frame", "pandas.core.series"}
      [] prefix = "PIL." -> module \in {"PIL.Image", "PIL.ImageFile", "PIL.ImageDraw"}
      [] OTHER -> FALSE

\* issubclass: the class itself and its bases.
Bases(cls) ==
    CASE cls = "torch.nn.Parameter" -> {"torch.nn.Parameter", "torch.Tensor"}
      [] cls = "PIL.ImageFile.ImageFile" ->
            {"PIL.ImageFile.ImageFile", "PIL.Image.Image"}
      [] OTHER -> {cls}

issubclass(cls, base) == base \in Bases(cls)

get_origin(source) == source.origin

get_args(tp) == tp.args

(***************************************************************************)
(* Results of a handler: None, a (type, annotations) pair, or an exception. *)
(***************************************************************************)
ReturnNone == [tag |-> "none", type |-> NoneVal, anns |-> <<>>, err |-> NoneVal]

Return(type, anns) == [tag |-> "ok", type |-> type, anns |-> anns, err |-> NoneVal]

Raise(err) == [tag |-> "raise", type |-> NoneVal, anns |-> <<>>, err |-> err]

(***************************************************************************)
(* The engine's metadata-collection utility: it splits the annotations into *)
(* the constraints the engine knows and the others.  Every handler keeps    *)
(* the second part only (`_, remaining = collect_known_metadata(...)`).     *)
(***************************************************************************)
EngineKnownKinds == {"Gt"}

IsOther(a) == a.kind \notin EngineKnownKinds

collect_known_metadata(anns) == SelectSeq(anns, IsOther)

\* del lst[i], with i counted from 1.
DelAt(lst, i) == SubSeq(lst, 1, i - 1) \o SubSeq(lst, i + 1, Len(lst))

\* lst.insert(0, x)
InsertFront(lst, x) == <<x>> \o lst

\* np.dtype(x).name; np.dtype raises TypeError on what is no scalar type.
np_dtype_name(x) ==
    CASE x = "numpy.float32" -> "float32"
      [] x = "numpy.int64" -> "int64"
      [] OTHER -> "TypeError"

\* Line 52: np.dtype(get_args(args[1])[0]).name if args else None, with the
\* exception it ends in, if any.  Python counts from 0, the model from 1.
InferDType(args) ==
    IF Len(args) = 0 THEN NoneVal
    ELSE IF Len(args) < 2 THEN "IndexError"
    ELSE IF Len(get_args(args[2])) < 1 THEN "IndexError"
    ELSE np_dtype_name(get_args(args[2])[1])

RECURSIVE numpy_scan_no_conflict(_, _, _, _, _, _)
\* numpy_scan as it would be without the conflict test of lines 63-66.
numpy_scan_no_conflict(source, other, i, dtype, shape, remaining) ==
    IF i > Len(other)
    THEN Return(source.name,
                <<TensorSchema("numpy-array", dtype, shape)>> \o remaining)
    ELSE LET annotation == other[i] IN
         IF annotation.kind = "Shape"
         THEN numpy_scan_no_conflict(source, other, i + 1, dtype, annotation.v,
                                     remaining)
         ELSE IF annotation.kind = "DType"
         THEN numpy_scan_no_conflict(source, other, i + 1, annotation.v, shape,
                                     remaining)
         ELSE numpy_scan_no_conflict(source, other, i + 1, dtype, shape,
                                     Append(remaining, annotation))

RECURSIVE numpy_scan_insert_front(_, _, _, _, _, _)
\* numpy_scan as it would be with remaining_annotations.insert(0, annotation)
\* in place of the append of line 69.
numpy_scan_insert_front(source, other, i, dtype, shape, remaining) ==
    IF i > Len(other)
    THEN Return(source.name,
                <<TensorSchema("numpy-array", dtype, shape)>> \o remaining)
    ELSE LET annotation == other[i] IN
         IF annotation.kind = "Shape"
         THEN numpy_scan_insert_front(source, other, i + 1, dtype, annotation.v,
                                      remaining)
         ELSE IF annotation.kind = "DType"
         THEN IF dtype # NoneVal /\ dtype # annotation.v
              THEN Raise("ValueError")
              ELSE numpy_scan_insert_front(source, other, i + 1, annotation.v,
                                           shape, remaining)
         ELSE numpy_scan_insert_front(source, other, i + 1, dtype, shape,
                                      <<annotation>> \o remaining)

RECURSIVE numpy_scan(_, _, _, _, _, _)
\* The loop of lines 59-70 from index i on.
numpy_scan(source, other, i, dtype, shape, remaining) ==
    IF i > Len(other)
    THEN Return(source.name,
                <<TensorSchema("numpy-array", dtype, shape)>> \o remaining)
    ELSE LET annotation == other[i] IN
         IF annotation.kind = "Shape"
         THEN numpy_scan(source, other, i + 1, dtype, annotation.v, remaining)
         ELSE IF annotation.kind = "DType"
         THEN IF dtype # NoneVal /\ dtype # annotation.v
              THEN Raise("ValueError")
              ELSE numpy_scan(source, other, i + 1, annotation.v, shape, remaining)
         ELSE numpy_scan(source, other, i + 1, dtype, shape,
                         Append(remaining, annotation))

numpy_prepare_pydantic_annotations(source, anns) ==
    IF ~StartsWith(source.module, "numpy") THEN ReturnNone
    ELSE IF get_origin(source) # "numpy.ndarray" THEN ReturnNone
    ELSE LET dtype == InferDType(get_args(source)) IN
         IF dtype = "TypeError" THEN ReturnNone
         ELSE IF dtype = "IndexError" THEN Raise("IndexError")
         ELSE numpy_scan(source, collect_known_metadata(anns), 1, dtype,
                         NoneVal, <<>>)

RECURSIVE torch_scan_keep_dtype(_, _, _, _, _, _)
\* torch_scan as it would be without the del of line 96.
torch_scan_keep_dtype(source, snapshot, i, dtype, shape, remaining) ==
    IF i < 1
    THEN Return(source.name,
                <<TensorSchema("torch-tensor", dtype, shape)>> \o remaining)
    ELSE LET annotation == snapshot[i] IN
         IF annotation.kind = "Shape"
         THEN torch_scan_keep_dtype(source, snapshot, i - 1, dtype, annotation.v,
                                    DelAt(remaining, i))
         ELSE IF annotation.kind = "DType"
         THEN torch_scan_keep_dtype(source, snapshot, i - 1, annotation.v, shape,
                                    remaining)
         ELSE torch_scan_keep_dtype(source, snapshot, i - 1, dtype, shape,
                                    remaining)

RECURSIVE torch_scan(_, _, _, _, _, _)
\* The loop of lines 90-97: i runs down the indices of the list as it was
\* before the loop, and the deletions act on the list as it is now.
torch_scan(source, snapshot, i, dtype, shape, remaining) ==
    IF i < 1
    THEN Return(source.name,
                <<TensorSchema("torch-tensor", dtype, shape)>> \o remaining)
    ELSE LET annotation == snapshot[i] IN
         IF annotation.kind = "Shape"
         THEN torch_scan(source, snapshot, i - 1, dtype, annotation.v,
                         DelAt(remaining, i))
         ELSE IF annotation.kind = "DType"
         THEN torch_scan(source, snapshot, i - 1, annotation.v, shape,
                         DelAt(remaining, i))
         ELSE torch_scan(source, snapshot, i - 1, dtype, shape, remaining)

torch_prepare_pydantic_annotations(source, anns) ==
    IF ~StartsWith(source.module, "torch") THEN ReturnNone
    ELSE IF ~issubclass(get_origin(source), "torch.Tensor") THEN ReturnNone
    ELSE LET remaining_annotations == collect_known_metadata(anns) IN
         torch_scan(source, remaining_annotations, Len(remaining_annotations),
                    NoneVal, NoneVal, remaining_annotations)

RECURSIVE tf_scan(_, _, _, _, _, _)
\* The loop of lines 116-123.
tf_scan(source, snapshot, i, dtype, shape, remaining) ==
    IF i < 1
    THEN Return(source.name,
                <<TensorSchema("tf-tensor", dtype, shape)>> \o remaining)
    ELSE LET annotation == snapshot[i] IN
         IF annotation.kind = "Shape"
         THEN tf_scan(source, snapshot, i - 1, dtype, annotation.v,
                      DelAt(remaining, i))
         ELSE IF annotation.kind = "DType"
         THEN tf_scan(source, snapshot, i - 1, annotation.v, shape,
                      DelAt(remaining, i))
         ELSE tf_scan(source, snapshot, i - 1, dtype, shape, remaining)

tf_prepare_pydantic_annotations(source, anns) ==
    IF ~StartsWith(source.module, "tensorflow") THEN ReturnNone
    ELSE IF ~issubclass(get_origin(source), "tensorflow.Tensor") THEN ReturnNone
    ELSE LET remaining_annotations == collect_known_metadata(anns) IN
         tf_scan(source, remaining_annotations, Len(remaining_annotations),
                 NoneVal, NoneVal, remaining_annotations)

HasDataframeSchema(anns) ==
    \E i \in 1..Len(anns) : anns[i].kind = "DataframeSchema"

\* The dataframe handler as it would be without the test of line 139.
pandas_prepare_always_insert(source, anns) ==
    IF ~StartsWith(source.module, "pandas") THEN ReturnNone
    ELSE IF ~issubclass(get_origin(source), "pandas.DataFrame") THEN ReturnNone
    ELSE Return(get_origin(source),
                InsertFront(collect_known_metadata(anns),
                            DataframeSchema("default")))

\* The dataframe handler as it would be with append in place of insert(0, ...).
pandas_prepare_append(source, anns) ==
    IF ~StartsWith(source.module, "pandas") THEN ReturnNone
    ELSE IF ~issubclass(get_origin(source), "pandas.DataFrame") THEN ReturnNone
    ELSE LET remaining_annotations == collect_known_metadata(anns) IN
         IF ~HasDataframeSchema(remaining_annotations)
         THEN Return(get_origin(source),
                     Append(remaining_annotations, DataframeSchema("default")))
         ELSE Return(get_origin(source), remaining_annotations)

pandas_prepare_pydantic_annotations(source, anns) ==
    IF ~StartsWith(source.module, "pandas") THEN ReturnNone
    ELSE IF ~issubclass(get_origin(source), "pandas.DataFrame") THEN ReturnNone
    ELSE LET remaining_annotations == collect_known_metadata(anns) IN
         IF ~HasDataframeSchema(remaining_annotations)
         THEN Return(get_origin(source),
                     InsertFront(remaining_annotations, DataframeSchema("default")))
         ELSE Return(get_origin(source), remaining_annotations)

pil_prepare_pydantic_annotations(source, anns) ==
    IF ~StartsWith(source.module, "PIL.") THEN ReturnNone
    ELSE IF ~issubclass(get_origin(source), "PIL.Image.Image") THEN ReturnNone
    ELSE Return(get_origin(source),
                <<PILImageEncoder>> \o collect_known_metadata(anns))

RECURSIVE pathlib_scan(_, _, _, _, _)
\* The loop of lines 179-183.
pathlib_scan(source, snapshot, i, content_type, remaining) ==
    IF i < 1
    THEN Return(source.name, <<FileSchema(content_type)>> \o remaining)
    ELSE LET annotation == snapshot[i] IN
         IF annotation.kind = "ContentType"
         THEN pathlib_scan(source, snapshot, i - 1, annotation.v,
                           DelAt(remaining, i))
         ELSE pathlib_scan(source, snapshot, i - 1, content_type, remaining)

\* The path handler as it would be with the concrete Windows type left out
\* of the set of lines 165-172.
pathlib_prepare_five_types(source, anns) ==
    IF source.name \notin { "pathlib.PurePath", "pathlib.PurePosixPath",
                             "pathlib.PureWindowsPath", "pathlib.Path",
                             "pathlib.PosixPath" }
    THEN ReturnNone
    ELSE LET remaining_annotations == collect_known_metadata(anns) IN
         pathlib_scan(source, remaining_annotations, Len(remaining_annotations),
                      NoneVal, remaining_annotations)

pathlib_prepare_pydantic_annotations(source, anns) ==
    IF source.name \notin { "pathlib.PurePath", "pathlib.PurePosixPath",
                             "pathlib.PureWindowsPath", "pathlib.Path",
                             "pathlib.PosixPath", "pathlib.WindowsPath" }
    THEN ReturnNone
    ELSE LET remaining_annotations == collect_known_metadata(anns) IN
         pathlib_scan(source, remaining_annotations, Len(remaining_annotations),
                      NoneVal, remaining_annotations)

\* The list with the two tensor frameworks exchanged.
CUSTOM_PREPARE_METHODS_swapped ==
    <<"numpy", "tensorflow", "torch", "pandas", "PIL">>

CUSTOM_PREPARE_METHODS == <<"numpy", "torch", "tensorflow", "pandas", "PIL">>

\* Calling the preparer of the given name.
Preparer(name, source, anns) ==
    CASE name = "numpy" -> numpy_prepare_pydantic_annotations(source, anns)
      [] name = "torch" -> torch_prepare_pydantic_annotations(source, anns)
      [] name = "tensorflow" -> tf_prepare_pydantic_annotations(source, anns)
      [] name = "pandas" -> pandas_prepare_pydantic_annotations(source, anns)
      [] name = "PIL" -> pil_prepare_pydantic_annotations(source, anns)

\* super()._get_prepare_pydantic_annotations_for_known_type: the engine's own
\* resolution, whose result is passed through as it is.
EngineResolve(source, anns) ==
    IF source.engineKnown
    THEN Return(source.name, <<Ann("EngineSchema", NoneVal)>> \o anns)
    ELSE ReturnNone

(***************************************************************************)
(* The resolver, _get_prepare_pydantic_annotations_for_known_type, one      *)
(* action per step; calls records the steps invoked, in order.              *)
(***************************************************************************)
Init ==
    /\ obj \in Sources
    /\ annotations \in AnnotationLists
    /\ pc = "hash"
    /\ idx = 1
    /\ calls = <<>>
    /\ res = ReturnNone

\* The first step as it would be without the try/except around hash(obj).
CheckHashable_unchecked ==
    /\ pc = "hash"
    /\ pc' = "path"
    /\ res' = ReturnNone
    /\ UNCHANGED <<obj, annotations, idx, calls>>

\* Lines 203-207: hash(obj), and None on TypeError.
CheckHashable ==
    /\ pc = "hash"
    /\ pc' = IF obj.hashable THEN "path" ELSE "done"
    /\ res' = ReturnNone
    /\ UNCHANGED <<obj, annotations, idx, calls>>

\* Lines 209-213: the path preparer first.
TryPath ==
    /\ pc = "path"
    /\ calls' = Append(calls, "pathlib")
    /\ LET r == pathlib_prepare_pydantic_annotations(obj, annotations) IN
         /\ res' = r
         /\ pc' = IF r.tag # "none" THEN "done" ELSE "builtin"
    /\ UNCHANGED <<obj, annotations, idx>>

\* Lines 215-217: the engine's built-in resolution.
TryBuiltin ==
    /\ pc = "builtin"
    /\ calls' = Append(calls, "builtin")
    /\ LET r == EngineResolve(obj, annotations) IN
         /\ res' = r
         /\ pc' = IF r.tag # "none" THEN "done" ELSE "custom"
    /\ UNCHANGED <<obj, annotations, idx>>

\* Lines 219-222: one turn of the loop over CUSTOM_PREPARE_METHODS.
TryCustom ==
    /\ pc = "custom"
    /\ idx <= Len(CUSTOM_PREPARE_METHODS)
    /\ calls' = Append(calls, CUSTOM_PREPARE_METHODS[idx])
    /\ LET r == Preparer(CUSTOM_PREPARE_METHODS[idx], obj, annotations) IN
         /\ res' = r
         /\ pc' = IF r.tag # "none" THEN "done" ELSE "custom"
         /\ idx' = IF r.tag # "none" THEN idx ELSE idx + 1
    /\ UNCHANGED <<obj, annotations>>

\* Line 223: the loop is over and nothing matched.
FallThrough ==
    /\ pc = "custom"
    /\ idx > Len(CUSTOM_PREPARE_METHODS)
    /\ pc' = "done"
    /\ res' = ReturnNone
    /\ UNCHANGED <<obj, annotations, idx, calls>>

Next ==
    \/ CheckHashable
    \/ TryPath
    \/ TryBuiltin
    \/ TryCustom
    \/ FallThrough

Spec == Init /\ [][Next]_vars

TypeOK ==
    /\ obj \in Sources
    /\ pc \in {"hash", "path", "builtin", "custom", "done"}
    /\ idx \in 1..(Len(CUSTOM_PREPARE_METHODS) + 1)
    /\ res.tag \in {"none", "ok", "raise"}

(***************************************************************************)
(* Vocabulary of the properties.                                            *)
(***************************************************************************)
\* The step invoked last, NoneVal before the first one.
LastCall == IF Len(calls) = 0 THEN NoneVal ELSE calls[Len(calls)]

\* The call has ended with a result given by the step named h.
AnsweredBy(h) == pc = "done" /\ res.tag = "ok" /\ LastCall = h

\* The indices of lst that hold an annotation of one of the kinds.
IndicesOf(lst, kinds) == { i \in 1..Len(lst) : lst[i].kind \in kinds }

Count(lst, kinds) == Cardinality(IndicesOf(lst, kinds))

\* lst without its annotations of the given kinds, order kept.
RECURSIVE Without(_, _)
Without(lst, kinds) ==
    IF lst = <<>> THEN <<>>
    ELSE IF Head(lst).kind \in kinds THEN Without(Tail(lst), kinds)
    ELSE <<Head(lst)>> \o Without(Tail(lst), kinds)

\* The value of the annotation of the kind that is declared last.
LastDeclared(lst, kind) ==
    LET I == IndicesOf(lst, {kind})
    IN lst[CHOOSE i \in I : \A j \in I : j <= i].v

\* What each handler consumes.
Consumed(h) ==
    CASE h \in {"numpy", "torch", "tensorflow"} -> {"Shape", "DType"}
      [] h = "pathlib" -> {"ContentType"}
      [] OTHER -> {}

TheOrder == <<"pathlib", "builtin", "numpy", "torch", "tensorflow", "pandas", "PIL">>

\* What the step named h gives on the call's inputs.
StepResult(h) ==
    CASE h = "pathlib" -> pathlib_prepare_pydantic_annotations(obj, annotations)
      [] h = "builtin" -> EngineResolve(obj, annotations)
      [] OTHER -> Preparer(h, obj, annotations)

(***************************************************************************)
(* C1: the steps run in the order path, built-in, numpy, torch,             *)
(* tensorflow, pandas, PIL; every step before the last one invoked gave     *)
(* None; the call ends with the first result that is not None, or with None *)
(* after all seven steps gave None; a path type never reaches the built-in  *)
(* resolution.                                                              *)
(***************************************************************************)
C1_FixedOrder ==
    /\ Len(calls) <= Len(TheOrder)
    /\ calls = SubSeq(TheOrder, 1, Len(calls))
    /\ \A i \in 1..(Len(calls) - 1) : StepResult(calls[i]).tag = "none"
    /\ (obj.name \in PathTypes => \A i \in 1..Len(calls) : calls[i] # "builtin")
    /\ (pc = "done" /\ obj.hashable =>
          /\ res = StepResult(LastCall)
          /\ (res.tag = "none" => calls = TheOrder))
    /\ (pc # "done" => \A i \in 1..Len(calls) : StepResult(calls[i]).tag = "none")

\* A call that went through all seven steps and was answered by the last.
C1_Witness == AnsweredBy("PIL") /\ Len(calls) = 7

(***************************************************************************)
(* C2: for an ndarray type whose element type is inferred (or that has no   *)
(* generic parameter): with no DType annotation the schema's dtype is the   *)
(* inferred one; with an inferred dtype and DType annotations equal to it   *)
(* the call succeeds with that dtype; with an inferred dtype and a DType    *)
(* annotation that differs the call raises the conflict error.              *)
(***************************************************************************)
Inferred == InferDType(get_args(obj))

RecognizedNdArray ==
    /\ obj.module = "numpy"
    /\ obj.origin = "numpy.ndarray"
    /\ Inferred \notin {"TypeError", "IndexError"}

ExplicitDTypes == { annotations[i].v : i \in IndicesOf(annotations, {"DType"}) }

C2_NumpyDType ==
    pc = "done" /\ RecognizedNdArray =>
      /\ LastCall = "numpy"
      /\ (ExplicitDTypes = {} =>
            /\ res.tag = "ok"
            /\ res.anns[1].kind = "TensorSchema"
            /\ res.anns[1].dtype = Inferred)
      /\ (Inferred # NoneVal /\ ExplicitDTypes = {Inferred} =>
            /\ res.tag = "ok"
            /\ res.anns[1].kind = "TensorSchema"
            /\ res.anns[1].dtype = Inferred)
      /\ (Inferred # NoneVal /\ ExplicitDTypes \ {Inferred} # {} =>
            /\ res.tag = "raise"
            /\ res.err = "ValueError")

\* An ndarray of float32 declared with DType("int64"): the conflict.
C2_Witness ==
    /\ pc = "done"
    /\ RecognizedNdArray
    /\ Inferred = "float32"
    /\ "int64" \in ExplicitDTypes
    /\ res.tag = "raise"

(***************************************************************************)
(* C3: in the torch, tensorflow and path handlers, of several annotations   *)
(* of one consumed kind the schema keeps the value of the one declared      *)
(* last.                                                                    *)
(***************************************************************************)
C3_LastDeclaredWins ==
    /\ (AnsweredBy("torch") \/ AnsweredBy("tensorflow") =>
          /\ (IndicesOf(annotations, {"Shape"}) # {} =>
                res.anns[1].shape = LastDeclared(annotations, "Shape"))
          /\ (IndicesOf(annotations, {"DType"}) # {} =>
                res.anns[1].dtype = LastDeclared(annotations, "DType")))
    /\ (AnsweredBy("pathlib") =>
          (IndicesOf(annotations, {"ContentType"}) # {} =>
                res.anns[1].v = LastDeclared(annotations, "ContentType")))

(***************************************************************************)
(* C4: the list the torch and tensorflow handlers return holds no Shape and *)
(* no DType, the list the path handler returns holds no ContentType, and    *)
(* what follows the schema is the scanned list without those entries, no    *)
(* other entry deleted; [Shape((3,224,224)), DType("float32")] on a tensor  *)
(* type gives the TensorSchema alone.                                       *)
(***************************************************************************)
C4_ConsumedRemoved ==
    \A h \in {"torch", "tensorflow", "pathlib"} :
      AnsweredBy(h) =>
        /\ Count(res.anns, Consumed(h)) = 0
        /\ Tail(res.anns) = Without(collect_known_metadata(annotations), Consumed(h))
        /\ (h # "pathlib" /\ annotations = <<Shape("(3,224,224)"), DType("float32")>>
              => res.anns = <<TensorSchema(IF h = "torch" THEN "torch-tensor"
                                           ELSE "tf-tensor",
                                           "float32", "(3,224,224)")>>)

\* A tensor declared with a DType, another annotation and a Shape, in that
\* order: two deletions around an entry that stays.
C4_Witness ==
    /\ AnsweredBy("torch")
    /\ Len(annotations) = 3
    /\ annotations[1].kind = "DType"
    /\ annotations[2].kind = "Custom"
    /\ annotations[3].kind = "Shape"
    /\ res.anns = <<TensorSchema("torch-tensor", annotations[1].v, annotations[3].v),
                    annotations[2]>>

(***************************************************************************)
(* C5, as stated: after the schema a handler produced come exactly the      *)
(* caller's annotations without the entries the handler consumes (Shape and *)
(* DType for the tensors, ContentType for the path, none for dataframe and  *)
(* image), in their order, nothing else dropped.                            *)
(***************************************************************************)
ModuleHandlers == {"pathlib", "numpy", "torch", "tensorflow", "pandas", "PIL"}

\* What follows the schema the handler produced: the whole list where the
\* dataframe handler produced none.
AfterSchema(h) ==
    IF h = "pandas" /\ HasDataframeSchema(annotations)
    THEN res.anns
    ELSE Tail(res.anns)

Reapplied == pandas_prepare_pydantic_annotations(obj, res.anns)

C7_OneSchemaFirst ==
    \A h \in ModuleHandlers :
      AnsweredBy(h) =>
        /\ Count(res.anns, SchemaKinds) <= 1
        /\ IndicesOf(res.anns, SchemaKinds) \subseteq {1}

(***************************************************************************)
(* C7, amended: a handler of this module produces at most one Resolved      *)
(* Schema per call and the one it produces is the first element of the      *)
(* returned list; the schema annotations of the input stay behind it, where *)
(* they were among the kept annotations; the dataframe handler given a      *)
(* DataframeSchema produces none and adds none.                             *)
(***************************************************************************)
ProducedKind(h) ==
    CASE h \in {"numpy", "torch", "tensorflow"} -> "TensorSchema"
      [] h = "pandas" -> "DataframeSchema"
      [] h = "PIL" -> "PILImageEncoder"
      [] h = "pathlib" -> "FileSchema"

C7_OneSchemaProduced ==
    \A h \in ModuleHandlers :
      AnsweredBy(h) =>
        LET produced == Count(res.anns, SchemaKinds) - Count(annotations, SchemaKinds)
        IN /\ produced \in {0, 1}
           /\ (produced = 0 <=> h = "pandas" /\ HasDataframeSchema(annotations))
           /\ (produced = 1 =>
                 /\ res.anns[1].kind = ProducedKind(h)
                 /\ Count(Tail(res.anns), SchemaKinds) = Count(annotations, SchemaKinds))
           /\ (produced = 0 => Without(res.anns, SchemaKinds)
                                 = Without(annotations, SchemaKinds \cup EngineKnownKinds))

\* A dataframe declared without a DataframeSchema: the one produced is first.
C7_Witness ==
    /\ AnsweredBy("pandas")
    /\ Len(annotations) = 2
    /\ ~HasDataframeSchema(annotations)
    /\ res.anns[1] = DataframeSchema("default")
    /\ Len(res.anns) = 3

(***************************************************************************)
(* C8: the path handler answers for the six pathlib types and gives None    *)
(* for every other source; for the six, the type is returned as it is, a    *)
(* FileSchema comes first, with the content type of the one ContentType     *)
(* annotation, which is removed, or with None where there is none.          *)
(***************************************************************************)
C8_PathHandler ==
    Len(calls) >= 1 =>
      /\ calls[1] = "pathlib"
      /\ (obj.name \in { "pathlib.PurePath", "pathlib.PurePosixPath",
                         "pathlib.PureWindowsPath", "pathlib.Path",
                         "pathlib.PosixPath", "pathlib.WindowsPath" } =>
            /\ AnsweredBy("pathlib")
            /\ res.type = obj.name
            /\ res.anns[1].kind = "FileSchema"
            /\ (Count(annotations, {"ContentType"}) = 1 =>
                  /\ res.anns[1] = FileSchema(LastDeclared(annotations, "ContentType"))
                  /\ Count(res.anns, {"ContentType"}) = 0
                  /\ Len(res.anns) = Len(collect_known_metadata(annotations)))
            /\ (Count(annotations, {"ContentType"}) = 0 =>
                  res.anns[1] = FileSchema(NoneVal)))
      /\ (obj.name \notin { "pathlib.PurePath", "pathlib.PurePosixPath",
                            "pathlib.PureWindowsPath", "pathlib.Path",
                            "pathlib.PosixPath", "pathlib.WindowsPath" } =>
            /\ ~AnsweredBy("pathlib")
            /\ (calls = <<"pathlib">> => pc = "builtin" /\ res = ReturnNone))

\* WindowsPath declared with ContentType("application/pdf") and one more.
C8_Witness ==
    /\ AnsweredBy("pathlib")
    /\ obj.name = "pathlib.WindowsPath"
    /\ annotations = <<Ann("Custom", "a"), ContentType("application/pdf")>>
    /\ res.anns = <<FileSchema("application/pdf"), Ann("Custom", "a")>>

(***************************************************************************)
(* C9: for an unhashable source the resolver returns None, raises nothing   *)
(* and invokes no step at all.                                              *)
(***************************************************************************)
C9_UnhashableNone ==
    ~obj.hashable =>
      /\ calls = <<>>
      /\ pc \in {"hash", "done"}
      /\ res = ReturnNone

\* The call on the unhashable source has ended.
C9_Witness == ~obj.hashable /\ pc = "done" /\ calls = <<>>

(***************************************************************************)
(* C10: a handler raises in one case only, the numpy handler on an inferred *)
(* dtype and a DType annotation that differ.                                *)
(***************************************************************************)
C10_OnlyConflictRaises ==
    res.tag = "raise" =>
      /\ LastCall = "numpy"
      /\ Inferred \notin {NoneVal, "TypeError", "IndexError"}
      /\ ExplicitDTypes \ {Inferred} # {}
====
